---- MODULE Spec2Model ----
(***************************************************************************)
(* Model of src/app.js: the cascading log -> table -> rows browser.        *)
(*                                                                         *)
(* Strings are sequences of one-character strings, so that String.replace  *)
(* and Number.toFixed are computed and not assumed.  The empty sequence    *)
(* is the empty string (and stands for null where the code tests           *)
(* truthiness only).                                                       *)
(*                                                                         *)
(* Every async function is split where it suspends: the synchronous part   *)
(* runs inside the event listener that calls it, the continuation runs     *)
(* when the fetch (fetch() followed by response.json()) settles.  Nothing  *)
(* of the page is read or written between the two awaits, so the           *)
(* continuation is one step.                                               *)
(***************************************************************************)
EXTENDS Integers, Sequences, FiniteSets, TLC

VARIABLES
    logHead,          \* first <option> of #log-select: "markup" | "prompt" | "error"
    logOpts,          \* the other options of #log-select (value = text)
    logSel,           \* logSelect.value
    tableHead,        \* first <option> of #table-select: "markup" | "dash" | "prompt" | "error"
    tableOpts,        \* the other options of #table-select: [value, text]
    tableSel,         \* tableSelect.value
    tableDisabled,    \* tableSelect.disabled
    dataArea,         \* children of #data-container, in document order
    loading,          \* loadingIndicator.style.display = 'inline'
    exportVisible,    \* exportButton.style.display = 'inline-block'
    currentTableName, \* let currentTableName
    location,         \* window.location.href as set by the export click
    fetches,          \* every fetch issued so far, with its outcome once settled
    generation,       \* number of user selections so far (the spec's generation)
    lastSelect,       \* the latest user selection: which dropdown, which value
    lastEvent         \* the handler that ran last

vars == <<logHead, logOpts, logSel, tableHead, tableOpts, tableSel, tableDisabled,
          dataArea, loading, exportVisible, currentTableName, location,
          fetches, generation, lastSelect, lastEvent>>

(***************************************************************************)
(* Bounds                                                                  *)
(***************************************************************************)
MaxSelections == 3

(***************************************************************************)
(* Strings                                                                 *)
(***************************************************************************)
EmptyStr == <<>>

\* true iff pat occurs in s at position i (1-based)
MatchAt(s, pat, i) ==
    /\ i + Len(pat) - 1 <= Len(s)
    /\ \A j \in 1..Len(pat) : s[i + j - 1] = pat[j]

\* String.prototype.replace(pattern: string, ''): the first occurrence only
ReplaceFirst(s, pat) ==
    LET hits == {i \in 1..Len(s) : MatchAt(s, pat, i)}
    IN  IF Len(pat) = 0 \/ hits = {} THEN s
        ELSE LET i == CHOOSE h \in hits : \A k \in hits : h <= k
             IN  SubSeq(s, 1, i - 1) \o SubSeq(s, i + Len(pat), Len(s))

\* name.replace(`_${logId}`, '')
CleanName(name, logId) == ReplaceFirst(name, <<"_">> \o logId)

(***************************************************************************)
(* Numbers.  A JSON number is an IEEE double; the model keeps the doubles  *)
(* k/16, which are exact, so that toFixed's rounding of the exact value    *)
(* (ties included) is computed without approximation, and the doubles      *)
(* d * 10^21 for a digit d, which are exact too and are where toFixed      *)
(* stops printing decimals.                                                *)
(***************************************************************************)
Abs(k) == IF k < 0 THEN -k ELSE k

DigitChar(d) == <<"0", "1", "2", "3", "4", "5", "6", "7", "8", "9">>[d + 1]

RECURSIVE Digits(_)
\* decimal digits of a natural number, no leading zeros
Digits(n) == IF n < 10 THEN <<DigitChar(n)>>
             ELSE Digits(n \div 10) \o <<DigitChar(n % 10)>>

\* toFixed(2): two digits after the decimal point
ToFixed2(k) ==
    LET n    == (100 * Abs(k) + 8) \div 16
        frac == n % 100
    IN  (IF k < 0 THEN <<"-">> ELSE <<>>)
        \o Digits(n \div 100) \o <<".">>
        \o <<DigitChar(frac \div 10), DigitChar(frac % 10)>>

\* Number.prototype.toFixed(3) of the double k/16: the integer n with
\* n/1000 nearest to |x|, the larger n on a tie, sign kept for x < 0
ToFixed3(k) ==
    LET n    == (1000 * Abs(k) + 8) \div 16
        frac == n % 1000
    IN  (IF k < 0 THEN <<"-">> ELSE <<>>)
        \o Digits(n \div 1000) \o <<".">>
        \o <<DigitChar(frac \div 100), DigitChar((frac \div 10) % 10), DigitChar(frac % 10)>>

(***************************************************************************)
(* JSON values of a row record and their rendering                         *)
(***************************************************************************)
Num(k)  == [t |-> "num", n |-> k, s |-> EmptyStr]
Big(d)  == [t |-> "big", n |-> d, s |-> EmptyStr]       \* the number d * 10^21
Str(s)  == [t |-> "str", n |-> 0, s |-> s]
Null    == [t |-> "null", n |-> 0, s |-> EmptyStr]
Missing == [t |-> "undefined", n |-> 0, s |-> EmptyStr]

Field(k, v) == [k |-> k, v |-> v]

\* Object.keys(row): the keys in insertion order
Keys(row) == [i \in 1..Len(row) |-> row[i].k]

\* rowObject[header]
Lookup(row, header) ==
    IF \E i \in 1..Len(row) : row[i].k = header
    THEN row[CHOOSE i \in 1..Len(row) : row[i].k = header].v
    ELSE Missing

\* typeof value === 'number'
IsNumber(value) == value.t \in {"num", "big"}

\* Number::toString of d * 10^21, d a non-zero digit: "<d>e+21"
BigToString(d) ==
    (IF d < 0 THEN <<"-">> ELSE <<>>) \o Digits(Abs(d)) \o <<"e", "+", "2", "1">>

\* value.toFixed(3): from 10^21 on, toFixed returns ToString of the number
ToFixed(value) ==
    IF value.t = "big" THEN BigToString(value.n) ELSE ToFixed3(value.n)

\* the text of one <td>: toFixed(3) for a number, then td.textContent = value
CellText(value) ==
    CASE IsNumber(value)   -> ToFixed(value)
      [] value.t = "str"   -> value.s
      [] OTHER             -> EmptyStr

(***************************************************************************)
(* Children of #data-container                                             *)
(***************************************************************************)
Paragraph(which) == [kind |-> which, header |-> <<>>, body |-> <<>>]

MarkupContent == Paragraph("markup")        \* whatever index.html ships
PromptLog     == Paragraph("promptLog")     \* 'Selecione uma informação.'
PromptTable   == Paragraph("promptTable")   \* 'Selecione uma tabela.'
EmptyTable    == Paragraph("empty")         \* 'Tabela vazia.'
DataError     == Paragraph("error")         \* 'Erro ao carregar dados.'

\* a table whose rows each list their own values, whatever their keys
RenderTableOwnValues(data) ==
    [kind   |-> "table",
     header |-> Keys(data[1]),
     body   |-> [r \in 1..Len(data) |->
                    [c \in 1..Len(data[r]) |-> CellText(data[r][c].v)]]]

\* the <table> built from a non-empty array of row objects
RenderTable(data) ==
    LET headers == Keys(data[1])
    IN  [kind   |-> "table",
         header |-> headers,
         body   |-> [r \in 1..Len(data) |->
                        [c \in 1..Len(headers) |-> CellText(Lookup(data[r], headers[c]))]]]

(***************************************************************************)
(* What the server may answer.  A fetch settles with a transport failure   *)
(* (fetch() rejects) or with a response: a status that is 2xx or not, and  *)
(* a body that is not JSON, a JSON value that is not an array, or a JSON   *)
(* array.  Each specification lets the server draw its answers from sets   *)
(* of its own; the continuations take the answer as a parameter.           *)
(***************************************************************************)
LogA == <<"1">>
LogB == <<"2">>

\* the tables of a log are named <base>_<logId>
TableS(logId) == <<"s", "_">> \o logId
TableE(logId) == <<"e", "_">> \o logId

\* the rows of a table: the second row lacks "v" and has a field of its own
RowsOf(tableName) ==
    << <<Field(<<"t">>, Num(16)), Field(<<"v">>, Num(40)), Field(<<"n">>, Str(tableName))>>,
       <<Field(<<"t">>, Num(32)), Field(<<"n">>, Null), Field(<<"x">>, Num(1))>> >>

Rejected == [net |-> "reject", ok |-> FALSE, json |-> "none", items |-> <<>>]

Response(ok, json, items) == [net |-> "response", ok |-> ok, json |-> json, items |-> items]

NotSettled == [net |-> "pending", ok |-> FALSE, json |-> "none", items |-> <<>>]

Bodies(arrays) ==
    {Rejected}
    \cup {Response(TRUE, "malformed", <<>>)}
    \cup {Response(FALSE, "object", <<>>)}
    \cup {Response(ok, "array", a) : ok \in BOOLEAN, a \in arrays}

LogsResponses == Bodies({<<LogA, LogB>>})

TablesResponses(logId) == Bodies({<<TableS(logId), TableE(logId)>>})

DataResponses(tableName) == Bodies({<<>>, RowsOf(tableName)})

\* `await fetch(...)` and `await response.json()` both fulfilled and the
\* value is an array: the try block runs to its end.  response.ok is never read.
ParsedArray(resp) == resp.net = "response" /\ resp.json = "array"

(***************************************************************************)
(* Fetches                                                                 *)
(***************************************************************************)
Fetch(kind, arg, gen) ==
    [kind |-> kind, arg |-> arg, gen |-> gen, status |-> "pending", resp |-> NotSettled]

Pending(kind) == {i \in 1..Len(fetches) : fetches[i].kind = kind /\ fetches[i].status = "pending"}

InFlight == {i \in 1..Len(fetches) : fetches[i].status = "pending"}

Settled(i, resp) == [fetches EXCEPT ![i].status = "settled", ![i].resp = resp]

Event(op, fetch) == [op |-> op, fetch |-> fetch]

Selection(kind, value) == [kind |-> kind, value |-> value]

(***************************************************************************)
(* Initial state: the DOMContentLoaded listener has run to its end, so     *)
(* loadLogIds() has shown the indicator and is suspended in its fetch.     *)
(* The markup starts with no log chosen: table dropdown disabled, export   *)
(* button hidden.                                                          *)
(***************************************************************************)
Init ==
    /\ logHead = "markup"
    /\ logOpts = <<>>
    /\ logSel = EmptyStr
    /\ tableHead = "markup"
    /\ tableOpts = <<>>
    /\ tableSel = EmptyStr
    /\ tableDisabled = TRUE
    /\ dataArea = <<MarkupContent>>
    /\ loading = TRUE
    /\ exportVisible = FALSE
    /\ currentTableName = EmptyStr
    /\ location = EmptyStr
    /\ fetches = <<Fetch("logs", EmptyStr, 0)>>
    /\ generation = 0
    /\ lastSelect = Selection("none", EmptyStr)
    /\ lastEvent = Event("load", 1)

(***************************************************************************)
(* loadLogIds: the continuation after the awaits                           *)
(***************************************************************************)
\* try block, lines 31-37
LogIdsTry(logIds) ==
    /\ logHead' = "prompt"
    /\ logOpts' = logIds
    /\ logSel' = EmptyStr

\* catch block, line 40
LogIdsCatch ==
    /\ logHead' = "error"
    /\ logOpts' = <<>>
    /\ logSel' = EmptyStr

LogIdsSettle(i, resp) ==
    /\ i \in Pending("logs")
    /\ IF ParsedArray(resp) THEN LogIdsTry(resp.items) ELSE LogIdsCatch
    /\ loading' = FALSE
    /\ fetches' = Settled(i, resp)
    /\ lastEvent' = Event("logIds", i)
    /\ UNCHANGED <<tableHead, tableOpts, tableSel, tableDisabled, dataArea,
                   exportVisible, currentTableName, location, generation, lastSelect>>

(***************************************************************************)
(* loadTables                                                              *)
(***************************************************************************)
\* options whose value is the clean name as well
TableOptionsKeyedByCleanName(tables, logId) ==
    [j \in 1..Len(tables) |->
        [value |-> CleanName(tables[j], logId), text |-> CleanName(tables[j], logId)]]

\* the <option>s appended by tables.forEach, lines 61-68
TableOptions(tables, logId) ==
    [j \in 1..Len(tables) |-> [value |-> tables[j], text |-> CleanName(tables[j], logId)]]

\* lines 49-53: no log chosen
LoadTablesEmpty ==
    /\ tableHead' = "dash"
    /\ tableOpts' = <<>>
    /\ tableSel' = EmptyStr
    /\ tableDisabled' = TRUE
    /\ UNCHANGED <<loading, fetches>>

\* lines 55-57: up to the first await
LoadTablesStart(logId) ==
    /\ loading' = TRUE
    /\ fetches' = Append(fetches, Fetch("tables", logId, generation + 1))
    /\ UNCHANGED <<tableHead, tableOpts, tableSel, tableDisabled>>

\* try block, lines 60-69
TablesTry(tables, logId) ==
    /\ tableHead' = "prompt"
    /\ tableOpts' = TableOptions(tables, logId)
    /\ tableSel' = EmptyStr
    /\ tableDisabled' = FALSE
    /\ UNCHANGED <<dataArea, exportVisible, currentTableName>>

\* a catch block that also resets the data area, as the log listener does
TablesCatchResettingData ==
    /\ tableHead' = "error"
    /\ tableOpts' = <<>>
    /\ tableSel' = EmptyStr
    /\ dataArea' = <<PromptLog>>
    /\ UNCHANGED <<tableDisabled, exportVisible, currentTableName>>

\* catch block, lines 70-73: tableSelect.disabled is not written
TablesCatch ==
    /\ tableHead' = "error"
    /\ tableOpts' = <<>>
    /\ tableSel' = EmptyStr
    /\ UNCHANGED <<tableDisabled, dataArea, exportVisible, currentTableName>>

TablesSettle(i, resp) ==
    /\ i \in Pending("tables")
    /\ IF ParsedArray(resp) THEN TablesTry(resp.items, fetches[i].arg) ELSE TablesCatch
    /\ loading' = FALSE
    /\ fetches' = Settled(i, resp)
    /\ lastEvent' = Event("tables", i)
    /\ UNCHANGED <<logHead, logOpts, logSel, location, generation, lastSelect>>

(***************************************************************************)
(* loadTableData                                                           *)
(***************************************************************************)
\* lines 81-85: no table chosen
LoadTableDataEmpty ==
    /\ dataArea' = <<PromptTable>>
    /\ currentTableName' = EmptyStr
    /\ UNCHANGED <<loading, fetches>>

\* lines 87-91: up to the first await
LoadTableDataStart(tableName) ==
    /\ loading' = TRUE
    /\ dataArea' = <<>>
    /\ fetches' = Append(fetches, Fetch("data", tableName, generation + 1))
    /\ UNCHANGED currentTableName

\* no test for an empty array: a table without rows is appended
TableDataNoRowsAsTable ==
    /\ dataArea' = Append(dataArea, [kind |-> "table", header |-> <<>>, body |-> <<>>])
    /\ UNCHANGED <<exportVisible, currentTableName>>

\* lines 94-98: an empty array
TableDataNoRows ==
    /\ dataArea' = <<EmptyTable>>
    /\ UNCHANGED <<exportVisible, currentTableName>>

\* lines 100-136: the table is appended to whatever the container holds
TableDataRows(data, tableName) ==
    /\ dataArea' = Append(dataArea, RenderTable(data))
    /\ currentTableName' = tableName
    /\ exportVisible' = TRUE

\* catch block, lines 138-141
TableDataCatch ==
    /\ dataArea' = <<DataError>>
    /\ UNCHANGED <<exportVisible, currentTableName>>

\* a continuation whose empty-array branch returns without showLoading(false)
TableDataSettleLeavingIndicator(i, resp) ==
    /\ i \in Pending("data")
    /\ IF ParsedArray(resp)
       THEN IF Len(resp.items) = 0 THEN TableDataNoRows /\ UNCHANGED loading
            ELSE TableDataRows(resp.items, fetches[i].arg) /\ loading' = FALSE
       ELSE TableDataCatch /\ loading' = FALSE
    /\ fetches' = Settled(i, resp)
    /\ lastEvent' = Event("tableData", i)
    /\ UNCHANGED <<logHead, logOpts, logSel, tableHead, tableOpts, tableSel,
                   tableDisabled, location, generation, lastSelect>>

TableDataSettle(i, resp) ==
    /\ i \in Pending("data")
    /\ IF ParsedArray(resp)
       THEN IF Len(resp.items) = 0 THEN TableDataNoRows
            ELSE TableDataRows(resp.items, fetches[i].arg)
       ELSE TableDataCatch
    /\ loading' = FALSE
    /\ fetches' = Settled(i, resp)
    /\ lastEvent' = Event("tableData", i)
    /\ UNCHANGED <<logHead, logOpts, logSel, tableHead, tableOpts, tableSel,
                   tableDisabled, location, generation, lastSelect>>

(***************************************************************************)
(* Event listeners                                                         *)
(***************************************************************************)
\* the values the user can pick in a dropdown: the first option has value ""
LogValues == {EmptyStr} \cup {logOpts[j] : j \in 1..Len(logOpts)}

TableValues == {EmptyStr} \cup {tableOpts[j].value : j \in 1..Len(tableOpts)}

\* logSelect 'change', lines 151-155
SelectLog(v) ==
    /\ generation < MaxSelections
    /\ v \in LogValues
    /\ v # logSel
    /\ logSel' = v
    /\ exportVisible' = FALSE
    /\ IF v = EmptyStr THEN LoadTablesEmpty ELSE LoadTablesStart(v)
    /\ dataArea' = <<PromptLog>>
    /\ generation' = generation + 1
    /\ lastSelect' = Selection("log", v)
    /\ lastEvent' = Event("selectLog", IF v = EmptyStr THEN 0 ELSE Len(fetches) + 1)
    /\ UNCHANGED <<logHead, logOpts, currentTableName, location>>

\* tableSelect 'change', lines 158-161: a disabled <select> takes no input
SelectTable(v) ==
    /\ generation < MaxSelections
    /\ ~tableDisabled
    /\ v \in TableValues
    /\ v # tableSel
    /\ tableSel' = v
    /\ exportVisible' = FALSE
    /\ IF v = EmptyStr THEN LoadTableDataEmpty ELSE LoadTableDataStart(v)
    /\ generation' = generation + 1
    /\ lastSelect' = Selection("table", v)
    /\ lastEvent' = Event("selectTable", IF v = EmptyStr THEN 0 ELSE Len(fetches) + 1)
    /\ UNCHANGED <<logHead, logOpts, logSel, tableHead, tableOpts, tableDisabled, location>>

\* a listener without the test of currentTableName
ExportClickUnguarded ==
    /\ location' = <<"/", "a", "p", "i", "/", "e", "x", "p", "o", "r", "t", "/">>
                       \o currentTableName
    /\ lastEvent' = Event("export", 0)
    /\ UNCHANGED <<logHead, logOpts, logSel, tableHead, tableOpts, tableSel, tableDisabled,
                   dataArea, loading, exportVisible, currentTableName, fetches, generation,
                   lastSelect>>

\* exportButton 'click', lines 164-169: the listener runs for every click
\* delivered to the button and tests currentTableName itself
ExportClick ==
    /\ location' = IF currentTableName # EmptyStr
                   THEN <<"/", "a", "p", "i", "/", "e", "x", "p", "o", "r", "t", "/">>
                        \o currentTableName
                   ELSE location
    /\ lastEvent' = Event("export", 0)
    /\ UNCHANGED <<logHead, logOpts, logSel, tableHead, tableOpts, tableSel, tableDisabled,
                   dataArea, loading, exportVisible, currentTableName, fetches, generation,
                   lastSelect>>

UserSelects == (\E v \in LogValues : SelectLog(v)) \/ (\E v \in TableValues : SelectTable(v))

Next ==
    \/ \E i \in 1..Len(fetches) : \E resp \in LogsResponses : LogIdsSettle(i, resp)
    \/ \E i \in 1..Len(fetches) : \E resp \in TablesResponses(fetches[i].arg) : TablesSettle(i, resp)
    \/ \E i \in 1..Len(fetches) : \E resp \in DataResponses(fetches[i].arg) : TableDataSettle(i, resp)
    \/ \E v \in LogValues : SelectLog(v)
    \/ \E v \in TableValues : SelectTable(v)
    \/ ExportClick

Spec == Init /\ [][Next]_vars

(***************************************************************************)
(* Vocabulary of the properties                                            *)
(***************************************************************************)
IsSettled(i) == fetches[i].status = "settled"

\* the fetch settled with rows, tables or logs that the try block rendered
Succeeded(i) == IsSettled(i) /\ ParsedArray(fetches[i].resp)

Failed(i) == IsSettled(i) /\ ~ParsedArray(fetches[i].resp)

GotRows(i) == Succeeded(i) /\ Len(fetches[i].resp.items) > 0

\* the fetch issued by the latest user selection, if it issued one
CurrentFetches == {i \in 1..Len(fetches) : fetches[i].gen = generation}

FetchesOf(kind) == {i \in 1..Len(fetches) : fetches[i].kind = kind}

Latest(S) == CHOOSE i \in S : \A j \in S : j <= i

\* what the data area holds when the result of row fetch i alone is shown
RowsResult(i) ==
    IF GotRows(i) THEN <<RenderTable(fetches[i].resp.items)>>
    ELSE IF Succeeded(i) THEN <<EmptyTable>>
    ELSE <<DataError>>

TablesInArea == {c \in 1..Len(dataArea) : dataArea[c].kind = "table"}

(***************************************************************************)
(* C1: when the latest selection is a non-empty table B and every row      *)
(* fetch has settled, the data area and the export state are those of B's  *)
(* result alone: B's table, placeholder or error, the export button shown  *)
(* exactly when B returned rows, and then with B as the target.            *)
(***************************************************************************)
C1_StaleRowsDiscarded ==
    \A b \in CurrentFetches :
        (fetches[b].kind = "data" /\ Pending("data") = {})
        => /\ dataArea = RowsResult(b)
           /\ exportVisible = GotRows(b)
           /\ GotRows(b) => currentTableName = fetches[b].arg

(***************************************************************************)
(* C2: once a log has been selected and every tables fetch has settled,    *)
(* the table dropdown shows the result of the latest log selection only:   *)
(* cleared and disabled for the empty log, that log's tables and enabled   *)
(* after a success, the error placeholder after a failure.                 *)
(***************************************************************************)
C2_StaleTablesDiscarded ==
    (generation > 0 /\ Pending("tables") = {})
    => IF logSel = EmptyStr
       THEN tableHead = "dash" /\ tableOpts = <<>> /\ tableDisabled
       ELSE LET f == Latest(FetchesOf("tables"))
            IN  IF Succeeded(f)
                THEN /\ tableHead = "prompt"
                     /\ tableOpts = TableOptions(fetches[f].resp.items, logSel)
                     /\ ~tableDisabled
                ELSE tableHead = "error" /\ tableOpts = <<>>

(***************************************************************************)
(* C3: while a fetch issued for the latest selection is in flight, the     *)
(* loading indicator is visible.                                           *)
(***************************************************************************)
C3_LoadingWhileCurrentPending ==
    (\E i \in CurrentFetches : i \in InFlight) => loading

(***************************************************************************)
(* C4: with no row fetch in flight, currentTableName is empty when no      *)
(* table is selected or when the last row fetch for the selected table     *)
(* failed or returned no rows, and is the selected table's rawName         *)
(* otherwise.                                                              *)
(***************************************************************************)
RowFetchesFor(tableName) == {i \in FetchesOf("data") : fetches[i].arg = tableName}

C4_ExportTarget ==
    Pending("data") = {}
    => currentTableName =
          IF tableSel = EmptyStr \/ RowFetchesFor(tableSel) = {} THEN EmptyStr
          ELSE IF GotRows(Latest(RowFetchesFor(tableSel))) THEN tableSel
          ELSE EmptyStr

(***************************************************************************)
(* C5: from the selection of the empty log until the next user selection,  *)
(* the page is in the Empty state: table dropdown disabled and cleared,    *)
(* data area showing the prompt, export hidden and export target empty.    *)
(***************************************************************************)
EmptyState ==
    /\ tableDisabled
    /\ tableHead = "dash"
    /\ tableOpts = <<>>
    /\ dataArea = <<PromptLog>>
    /\ ~exportVisible
    /\ currentTableName = EmptyStr

C5_EmptyLogResets ==
    lastSelect = Selection("log", EmptyStr) => EmptyState

(***************************************************************************)
(* C6: the export button is visible only when the latest selection is a    *)
(* table whose row fetch has settled with at least one row; so it is       *)
(* hidden when no table is selected, while the selected table's fetch is   *)
(* pending, and after that fetch failed or returned nothing.               *)
(***************************************************************************)
C6_ExportFollowsRowFetch ==
    exportVisible
    => /\ lastSelect.kind = "table"
       /\ \E b \in CurrentFetches : fetches[b].kind = "data" /\ GotRows(b)

(***************************************************************************)
(* C7: after the failure of a tables fetch has been handled, the table     *)
(* dropdown holds the error placeholder only and is disabled.              *)
(***************************************************************************)
C7_TablesFailureDisables ==
    (lastEvent.op = "tables" /\ Failed(lastEvent.fetch))
    => tableHead = "error" /\ tableOpts = <<>> /\ tableDisabled

(***************************************************************************)
(* C8: after a fetch settled with a transport failure, a non-2xx status    *)
(* or a body that is not JSON, the dropdown or data area it feeds shows    *)
(* the error placeholder and nothing of the body.                          *)
(***************************************************************************)
IsFailureResponse(resp) ==
    resp.net = "reject" \/ (resp.net = "response" /\ (~resp.ok \/ resp.json = "malformed"))

C8_FailuresUniform ==
    LET f == lastEvent.fetch
    IN  (lastEvent.op \in {"logIds", "tables", "tableData"} /\ IsFailureResponse(fetches[f].resp))
        => CASE lastEvent.op = "logIds"    -> logHead = "error" /\ logOpts = <<>>
             [] lastEvent.op = "tables"    -> tableHead = "error" /\ tableOpts = <<>>
             [] lastEvent.op = "tableData" -> dataArea = <<DataError>>

(***************************************************************************)
(* C9: the step that handles a tables-fetch failure leaves the data area   *)
(* and currentTableName as they were, and the step that handles a row-     *)
(* fetch failure leaves the table dropdown (options, selection, disabled   *)
(* flag) as it was.                                                        *)
(***************************************************************************)
\* this step is the continuation of fetch lastEvent'.fetch, and it failed
HandlesFailure(op) ==
    /\ lastEvent'.op = op
    /\ fetches[lastEvent'.fetch].status = "pending"
    /\ fetches'[lastEvent'.fetch].status = "settled"
    /\ ~ParsedArray(fetches'[lastEvent'.fetch].resp)

C9_FailuresLocal ==
    [][ /\ HandlesFailure("tables") => UNCHANGED <<dataArea, currentTableName>>
        /\ HandlesFailure("tableData") => UNCHANGED <<tableHead, tableOpts, tableSel, tableDisabled>>
      ]_vars

\* a tables failure was handled while the data area held a rendered table
C9_TablesFailedUnderTable ==
    /\ lastEvent.op = "tables"
    /\ Failed(lastEvent.fetch)
    /\ TablesInArea # {}
    /\ currentTableName # EmptyStr

(***************************************************************************)
(* C10: no failure is terminal.  Any sequence of selections that re-issues *)
(* a failed request starts with a selection, so after a fetch failure,     *)
(* once nothing is in flight, some selection the user can make is enabled. *)
(***************************************************************************)
C10_RetryBySelecting ==
    ((\E i \in 1..Len(fetches) : Failed(i)) /\ InFlight = {} /\ generation < MaxSelections)
    => ENABLED UserSelects

(***************************************************************************)
(* C11: the table name of every row fetch is non-empty and is a name that  *)
(* an earlier tables fetch returned; it is not the display name derived    *)
(* from that name.                                                         *)
(***************************************************************************)
Items(i) == {fetches[i].resp.items[j] : j \in 1..Len(fetches[i].resp.items)}

C11_RowFetchKeyedByRawName ==
    \A i \in FetchesOf("data") :
        /\ fetches[i].arg # EmptyStr
        /\ \E j \in FetchesOf("tables") :
              /\ j < i
              /\ Succeeded(j)
              /\ fetches[i].arg \in Items(j)
              /\ fetches[i].arg # CleanName(fetches[i].arg, fetches[j].arg)

\* a table selection has just issued a row fetch for the option it picked
C11_RowFetchIssued ==
    \E i \in FetchesOf("data") :
        /\ lastEvent = Event("selectTable", i)
        /\ fetches[i].status = "pending"
        /\ fetches[i].arg = tableSel

(***************************************************************************)
(* Display names.  The same page against a server with one log, whose      *)
(* identifier is any short string, and one table per answer, whose base    *)
(* name is any short string over the same characters, "_" included.        *)
(***************************************************************************)
MaxBaseLen == 3

NameChars == {"a", "_", "1"}

RECURSIVE StringsUpTo(_)
\* the strings over NameChars of length at most n
StringsUpTo(n) ==
    IF n = 0 THEN {EmptyStr}
    ELSE LET shorter == StringsUpTo(n - 1)
         IN  shorter \cup {Append(w, c) : w \in shorter, c \in NameChars}

BaseNames == StringsUpTo(MaxBaseLen)

NameLogIds == StringsUpTo(2) \ {EmptyStr}

\* rawName = base + "_" + logId
RawName(base, logId) == base \o <<"_">> \o logId

NamesNext ==
    \/ \E i \in 1..Len(fetches) : \E l \in NameLogIds :
          LogIdsSettle(i, Response(TRUE, "array", <<l>>))
    \/ \E i \in 1..Len(fetches) : \E base \in BaseNames :
          TablesSettle(i, Response(TRUE, "array", <<RawName(base, fetches[i].arg)>>))
    \/ \E v \in LogValues : SelectLog(v)

NamesSpec == Init /\ [][NamesNext]_vars

(***************************************************************************)
(* C12: when a tables fetch for logId has filled the dropdown, the text of *)
(* every option is its value without the trailing "_" + logId, that is,    *)
(* the base name.                                                          *)
(***************************************************************************)
WithoutSuffix(raw, logId) == SubSeq(raw, 1, Len(raw) - Len(logId) - 1)

C12_DisplayNameIsBase ==
    (lastEvent.op = "tables" /\ Succeeded(lastEvent.fetch))
    => \A j \in 1..Len(tableOpts) :
          tableOpts[j].text = WithoutSuffix(tableOpts[j].value, fetches[lastEvent.fetch].arg)

(***************************************************************************)
(* The end-to-end scenario.  The same page against the server of the       *)
(* scenario: logs L1 and L2, tables sensors_<log> and events_<log>, rows   *)
(* [{t:1, v:2.5}, {t:2, v:3}]; any request may also fail.                  *)
(***************************************************************************)
ScenarioL1 == <<"L", "1">>
ScenarioL2 == <<"L", "2">>

ScenarioSensors(logId) == <<"s", "e", "n", "s", "o", "r", "s", "_">> \o logId
ScenarioEvents(logId)  == <<"e", "v", "e", "n", "t", "s", "_">> \o logId

\* 1, 2.5, 2 and 3 in sixteenths
ScenarioRows ==
    << <<Field(<<"t">>, Num(16)), Field(<<"v">>, Num(40))>>,
       <<Field(<<"t">>, Num(32)), Field(<<"v">>, Num(48))>> >>

ScenarioAnswers(array) == {Rejected, Response(TRUE, "array", array)}

ScenarioNext ==
    \/ \E i \in 1..Len(fetches) : \E resp \in ScenarioAnswers(<<ScenarioL1, ScenarioL2>>) :
          LogIdsSettle(i, resp)
    \/ \E i \in 1..Len(fetches) :
          \E resp \in ScenarioAnswers(<<ScenarioSensors(fetches[i].arg), ScenarioEvents(fetches[i].arg)>>) :
             TablesSettle(i, resp)
    \/ \E i \in 1..Len(fetches) : \E resp \in ScenarioAnswers(ScenarioRows) :
          TableDataSettle(i, resp)
    \/ \E v \in LogValues : SelectLog(v)
    \/ \E v \in TableValues : SelectTable(v)
    \/ ExportClick

ScenarioSpec == Init /\ [][ScenarioNext]_vars

\* the scenario and nothing else has happened: logs loaded, L1 selected and
\* its tables loaded, sensors_L1 selected and its rows loaded
ScenarioDone ==
    /\ generation = 2
    /\ Len(fetches) = 3
    /\ \A i \in 1..3 : Succeeded(i)
    /\ fetches[2].arg = ScenarioL1
    /\ lastSelect = Selection("table", ScenarioSensors(ScenarioL1))

ScenarioDropdown ==
    /\ [j \in 1..Len(tableOpts) |-> tableOpts[j].text] = <<<<"s", "e", "n", "s", "o", "r", "s">>, <<"e", "v", "e", "n", "t", "s">>>>
    /\ [j \in 1..Len(tableOpts) |-> tableOpts[j].value]
          = <<ScenarioSensors(ScenarioL1), ScenarioEvents(ScenarioL1)>>

ScenarioTable(body) ==
    /\ Len(dataArea) = 1
    /\ dataArea[1].kind = "table"
    /\ dataArea[1].header = <<<<"t">>, <<"v">>>>
    /\ dataArea[1].body = body

(***************************************************************************)
(* C13 as stated: after the scenario the dropdown shows sensors and events *)
(* with the raw names as values, the table has header [t, v] and body      *)
(* [["1", "2.500"], ["2", "3.000"]], and the export target is sensors_L1.  *)
(***************************************************************************)
C13_ScenarioAsStated ==
    ScenarioDone
    => /\ ScenarioDropdown
       /\ ScenarioTable(<< <<<<"1">>, <<"2", ".", "5", "0", "0">>>>,
                           <<<<"2">>, <<"3", ".", "0", "0", "0">>>> >>)
       /\ currentTableName = ScenarioSensors(ScenarioL1)

(***************************************************************************)
(* C13 amended: the same, with every number of the body in three decimals: *)
(* [["1.000", "2.500"], ["2.000", "3.000"]].                               *)
(***************************************************************************)
C13_Scenario ==
    ScenarioDone
    => /\ ScenarioDropdown
       /\ ScenarioTable(<< <<<<"1", ".", "0", "0", "0">>, <<"2", ".", "5", "0", "0">>>>,
                           <<<<"2", ".", "0", "0", "0">>, <<"3", ".", "0", "0", "0">>>> >>)
       /\ currentTableName = ScenarioSensors(ScenarioL1)
       /\ exportVisible

\* the scenario has run to its end
C13_ScenarioRun == ScenarioDone /\ lastEvent = Event("tableData", 3)

(***************************************************************************)
(* Rendering.  The same page against a server with one log and one table,  *)
(* selected once, whose rows are any two records over the keys a and b, or *)
(* one record with one number.                                             *)
(***************************************************************************)
MaxSixteenths == 40

RenderKeys == {<<"a">>, <<"b">>}

RenderValues == {Num(24), Null, Str(<<"x">>)}

\* the row records: any keys, in any order, with any values
RenderRows ==
    {<<>>}
    \cup {<<Field(k, v)>> : k \in RenderKeys, v \in RenderValues}
    \cup {row \in {<<Field(k1, v1), Field(k2, v2)>> :
                        k1 \in RenderKeys, k2 \in RenderKeys,
                        v1 \in RenderValues, v2 \in RenderValues} : row[1].k # row[2].k}

RenderNumbers ==
    {Num(k) : k \in -MaxSixteenths..MaxSixteenths}
    \cup {Big(d) : d \in (-9..9) \ {0}}

RenderInputs ==
    {<<r1, r2>> : r1 \in RenderRows, r2 \in RenderRows}
    \cup {<< <<Field(<<"a">>, v)>> >> : v \in RenderNumbers}

RenderNext ==
    \/ \E i \in 1..Len(fetches) : LogIdsSettle(i, Response(TRUE, "array", <<LogA>>))
    \/ SelectLog(LogA)
    \/ \E i \in 1..Len(fetches) : TablesSettle(i, Response(TRUE, "array", <<TableS(LogA)>>))
    \/ SelectTable(TableS(LogA))
    \/ \E i \in 1..Len(fetches) : \E data \in RenderInputs :
          TableDataSettle(i, Response(TRUE, "array", data))

RenderSpec == Init /\ [][RenderNext]_vars

\* a row fetch has just rendered its rows
JustRendered == lastEvent.op = "tableData" /\ GotRows(lastEvent.fetch)

RenderedRows == fetches[lastEvent.fetch].resp.items

RenderedTable == dataArea[Len(dataArea)]

\* the fields of a row with a given key whose value is not null
FieldsWith(row, key) == {f \in 1..Len(row) : row[f].k = key /\ row[f].v.t # "null"}

JustGotNoRows ==
    /\ lastEvent.op = "tableData"
    /\ Succeeded(lastEvent.fetch)
    /\ ~GotRows(lastEvent.fetch)

C15_EmptyRowsPlaceholder ==
    /\ JustGotNoRows => dataArea = <<EmptyTable>>
    /\ \A c \in TablesInArea : Len(dataArea[c].body) > 0

\* an empty result has replaced what the data area held
C15_EmptyResultShown == JustGotNoRows /\ currentTableName # EmptyStr

(***************************************************************************)
(* C16: every cell that shows a number has the form [-]digits.ddd, where   *)
(* digits.ddd is the number's magnitude rounded to the nearest thousandth, *)
(* halves upwards; a cell that shows a string shows it unchanged.          *)
(***************************************************************************)
DecimalDigits == {"0", "1", "2", "3", "4", "5", "6", "7", "8", "9"}

DigitValue(c) == CHOOSE d \in 0..9 : DigitChar(d) = c

Unsigned(text) == IF Len(text) > 0 /\ text[1] = "-" THEN Tail(text) ELSE text

HasThreeDecimals(text) ==
    LET u == Unsigned(text)
    IN  /\ Len(u) >= 5
        /\ u[Len(u) - 3] = "."
        /\ \A i \in (1..Len(u)) \ {Len(u) - 3} : u[i] \in DecimalDigits

RECURSIVE NatOf(_)
\* the value of a string of digits, any "." skipped
NatOf(u) ==
    IF Len(u) = 0 THEN 0
    ELSE IF u[Len(u)] = "." THEN NatOf(SubSeq(u, 1, Len(u) - 1))
    ELSE 10 * NatOf(SubSeq(u, 1, Len(u) - 1)) + DigitValue(u[Len(u)])

\* text is k/16 in thousandths, rounded to nearest, halves away from zero
IsRounding(text, k) ==
    LET n == NatOf(Unsigned(text))
    IN  /\ 16 * n - 8 <= 1000 * Abs(k)
        /\ 1000 * Abs(k) < 16 * n + 8
        /\ (text[1] = "-") = (k < 0)

C16_ThreeDecimals ==
    JustRendered
    => \A r \in 1..Len(RenderedRows) : \A c \in 1..Len(RenderedTable.header) :
          \A f \in FieldsWith(RenderedRows[r], RenderedTable.header[c]) :
             LET v    == RenderedRows[r][f].v
                 text == RenderedTable.body[r][c]
             IN  /\ IsNumber(v) => HasThreeDecimals(text)
                 /\ v.t = "num" => IsRounding(text, v.n)
                 /\ v.t = "str" => text = v.s

\* the same for the numbers below 10^21 only
C16_ThreeDecimalsBelow1e21 ==
    JustRendered
    => \A r \in 1..Len(RenderedRows) : \A c \in 1..Len(RenderedTable.header) :
          \A f \in FieldsWith(RenderedRows[r], RenderedTable.header[c]) :
             LET v    == RenderedRows[r][f].v
                 text == RenderedTable.body[r][c]
             IN  /\ v.t = "num" => HasThreeDecimals(text) /\ IsRounding(text, v.n)
                 /\ v.t = "str" => text = v.s

(***************************************************************************)
(* C17: a click on the export button changes nothing of the page when      *)
(* currentTableName is empty; otherwise it sets the location to            *)
(* /api/export/<currentTableName> and changes nothing else: no fetch is    *)
(* issued, the dropdowns, the data area and the selection stay.            *)
(***************************************************************************)
ExportPath == <<"/", "a", "p", "i", "/", "e", "x", "p", "o", "r", "t", "/">>

\* this step is a click on the export button
IsExportClick == lastEvent'.op = "export"

C17_ExportClick ==
    [][ IsExportClick
        => /\ location' = IF currentTableName = EmptyStr THEN location
                          ELSE ExportPath \o currentTableName
           /\ UNCHANGED <<logHead, logOpts, logSel, tableHead, tableOpts, tableSel,
                          tableDisabled, dataArea, loading, exportVisible,
                          currentTableName, fetches, generation, lastSelect>>
      ]_vars

\* after a navigation to a table's export, a later click found the target
\* empty and did nothing
C17_ClickedWithAndWithoutTarget ==
    /\ lastEvent.op = "export"
    /\ currentTableName = EmptyStr
    /\ location # EmptyStr

(***************************************************************************)
(* C18: the data area never holds more than one child: one placeholder,    *)
(* one table, or nothing while rows are loading.                           *)
(***************************************************************************)
C18_OneThingInDataArea == Len(dataArea) <= 1

(***************************************************************************)
(* C19: when no fetch is in flight the loading indicator is hidden.        *)
(***************************************************************************)
C19_IdleMeansNotLoading == InFlight = {} => ~loading

\* every kind of fetch has been issued and all of them have settled, the
\* last one a row fetch that returned an empty array
C19_AllSettled ==
    /\ InFlight = {}
    /\ FetchesOf("tables") # {}
    /\ JustGotNoRows

(***************************************************************************)
(* C20: when the table dropdown is enabled and offers tables, they are the *)
(* tables that a tables fetch returned for the log selected now.           *)
(***************************************************************************)
C20_EnabledOptionsOfSelectedLog ==
    (~tableDisabled /\ tableOpts # <<>>)
    => \E f \in FetchesOf("tables") :
          /\ fetches[f].arg = logSel
          /\ Succeeded(f)
          /\ tableOpts = TableOptions(fetches[f].resp.items, logSel)

====
